---- MODULE Spec2Model ----
(***************************************************************************)
(* RESEARCH-WEB (src/index.js): the POST /analyze pipeline.                *)
(*                                                                         *)
(* JavaScript strings are TLA+ strings; a character is a string of length  *)
(* one.  The strings of the model are over the alphabet                    *)
(*   letters, digits, "." ":" "/" "\" "?" "#" and the space,               *)
(* and the URL parser below (the WHATWG parser behind `new URL`) is        *)
(* written for that alphabet: it has no userinfo ("@"), no IPv6 literal    *)
(* ("[" "]"), no percent sign and no non-ASCII character.                  *)
(***************************************************************************)
EXTENDS Integers, Sequences, FiniteSets, TLC

(***************************************************************************)
(* Strings                                                                 *)
(***************************************************************************)
CharAt(s, i) == SubSeq(s, i, i)

startsWith(s, p) == Len(s) >= Len(p) /\ SubSeq(s, 1, Len(p)) = p

endsWith(s, p) == Len(s) >= Len(p) /\ SubSeq(s, Len(s) - Len(p) + 1, Len(s)) = p

UpperAlpha == <<"A", "B", "C", "D", "E", "F", "G", "H", "I", "J", "K", "L", "M",
                "N", "O", "P", "Q", "R", "S", "T", "U", "V", "W", "X", "Y", "Z">>
LowerAlpha == <<"a", "b", "c", "d", "e", "f", "g", "h", "i", "j", "k", "l", "m",
                "n", "o", "p", "q", "r", "s", "t", "u", "v", "w", "x", "y", "z">>
HexDigits == <<"0", "1", "2", "3", "4", "5", "6", "7", "8", "9", "a", "b", "c", "d", "e", "f">>

UpperChars == { UpperAlpha[i] : i \in 1..26 }
LowerChars == { LowerAlpha[i] : i \in 1..26 }
DigitChars == { HexDigits[i] : i \in 1..10 }

IsAlpha(c) == c \in UpperChars \/ c \in LowerChars
IsDigit(c) == c \in DigitChars

LowerOf(c) ==
  IF c \in UpperChars THEN LowerAlpha[CHOOSE i \in 1..26 : UpperAlpha[i] = c] ELSE c

\* the value of a digit in the given radix, -1 if it is none
DigitValue(c, radix) ==
  IF \E i \in 1..radix : HexDigits[i] = c
  THEN (CHOOSE i \in 1..radix : HexDigits[i] = c) - 1
  ELSE -1

RECURSIVE toLowerCase(_)
toLowerCase(s) == IF s = "" THEN "" ELSE LowerOf(Head(s)) \o toLowerCase(Tail(s))

\* String.prototype.trim: white space is the space character in this alphabet
RECURSIVE trimStart(_)
trimStart(s) == IF s # "" /\ Head(s) = " " THEN trimStart(Tail(s)) ELSE s

RECURSIVE trimEnd(_)
trimEnd(s) ==
  IF s # "" /\ CharAt(s, Len(s)) = " " THEN trimEnd(SubSeq(s, 1, Len(s) - 1)) ELSE s

trim(s) == trimEnd(trimStart(s))

\* the first index >= from whose character is one of stops, Len(s) + 1 if none
FirstIndexOf(s, from, stops) ==
  LET hits == { i \in from..Len(s) : CharAt(s, i) \in stops }
  IN  IF hits = {} THEN Len(s) + 1 ELSE CHOOSE i \in hits : \A j \in hits : i <= j

\* the first index whose character is none of skips, Len(s) + 1 if none
FirstIndexNotOf(s, skips) ==
  LET hits == { i \in 1..Len(s) : CharAt(s, i) \notin skips }
  IN  IF hits = {} THEN Len(s) + 1 ELSE CHOOSE i \in hits : \A j \in hits : i <= j

\* s split at every character of seps, as a sequence of strings
RECURSIVE Split(_, _)
Split(s, seps) ==
  LET k == FirstIndexOf(s, 1, seps)
  IN  IF k > Len(s) THEN <<s>>
      ELSE <<SubSeq(s, 1, k - 1)>> \o Split(SubSeq(s, k + 1, Len(s)), seps)

RECURSIVE ToDec(_)
ToDec(n) ==
  IF n < 10 THEN HexDigits[n + 1] ELSE ToDec(n \div 10) \o HexDigits[(n % 10) + 1]

NULL == "<null>"

(***************************************************************************)
(* new URL(s): the WHATWG URL parser without a base, for the special       *)
(* schemes that carry an authority.  A parse is [ok |-> FALSE] or a record *)
(* of the URL's serialized components.                                     *)
(***************************************************************************)
Failure == [ok |-> FALSE]

SpecialSchemes == {"http", "https", "ftp", "ws", "wss"}

DefaultPort(scheme) ==
  CASE scheme = "http" -> 80
    [] scheme = "https" -> 443
    [] scheme = "ftp" -> 21
    [] scheme = "ws" -> 80
    [] scheme = "wss" -> 443

\* scheme start state, scheme state: [ok, scheme, rest]
ParseScheme(s) ==
  IF s = "" \/ ~IsAlpha(Head(s)) THEN Failure
  ELSE LET k == FirstIndexNotOf(s, UpperChars \cup LowerChars \cup DigitChars \cup {"+", "-", "."})
       IN  IF k <= Len(s) /\ CharAt(s, k) = ":"
           THEN [ok |-> TRUE, scheme |-> toLowerCase(SubSeq(s, 1, k - 1)),
                 rest |-> SubSeq(s, k + 1, Len(s))]
           ELSE Failure

\* a 32-bit accumulator in two 16-bit limbs; over is set once the value passes 2^32 - 1
RECURSIVE ParseRadix(_, _, _)
ParseRadix(s, radix, acc) ==
  IF s = "" THEN acc
  ELSE LET d == DigitValue(LowerOf(Head(s)), radix)
       IN  IF d < 0 THEN [acc EXCEPT !.ok = FALSE]
           ELSE LET lo == acc.lo * radix + d
                    hi == acc.hi * radix + (lo \div 65536)
                IN  ParseRadix(Tail(s), radix,
                      [ok |-> acc.ok, over |-> acc.over \/ hi >= 65536,
                       hi |-> hi % 65536, lo |-> lo % 65536])

\* the IPv4 number parser
ParseIPv4Number(part) ==
  LET zero == [ok |-> TRUE, over |-> FALSE, hi |-> 0, lo |-> 0]
  IN  IF part = "" THEN [zero EXCEPT !.ok = FALSE]
      ELSE IF Len(part) >= 2 /\ toLowerCase(SubSeq(part, 1, 2)) = "0x"
           THEN ParseRadix(SubSeq(part, 3, Len(part)), 16, zero)
      ELSE IF Len(part) >= 2 /\ Head(part) = "0"
           THEN ParseRadix(Tail(part), 8, zero)
      ELSE ParseRadix(part, 10, zero)

\* a trailing empty label is dropped before the last label is looked at
DropLastEmpty(parts) ==
  IF Len(parts) > 1 /\ parts[Len(parts)] = "" THEN SubSeq(parts, 1, Len(parts) - 1)
  ELSE parts

\* the ends-in-a-number checker, on the host's labels
EndsInANumber(parts) ==
  LET check(last) ==
        \/ last # "" /\ \A i \in 1..Len(last) : IsDigit(CharAt(last, i))
        \/ ParseIPv4Number(last).ok
  IN  check(parts[Len(parts)])

\* the four bytes of a 32-bit number, most significant first
Bytes(num) == <<num.hi \div 256, num.hi % 256, num.lo \div 256, num.lo % 256>>

\* the IPv4 parser's checks and the serializer, on the parsed numbers: the
\* dotted-decimal address, or NULL on failure
IPv4FromNumbers(nums, n, bytes) ==
  LET octet(i) == IF i < n THEN nums[i].lo ELSE bytes[i]
  IN  IF \E i \in 1..n : ~nums[i].ok \/ nums[i].over THEN NULL
      ELSE IF \E i \in 1..(n - 1) : nums[i].hi > 0 \/ nums[i].lo > 255 THEN NULL
      ELSE IF \E i \in 1..(n - 1) : bytes[i] # 0 THEN NULL
      ELSE ToDec(octet(1)) \o "." \o ToDec(octet(2)) \o "." \o ToDec(octet(3))
             \o "." \o ToDec(octet(4))

\* the IPv4 parser, on the host's labels
ParseIPv4(parts) ==
  IF Len(parts) > 4 THEN NULL
  ELSE IPv4FromNumbers([i \in 1..Len(parts) |-> ParseIPv4Number(parts[i])], Len(parts),
                       Bytes(ParseIPv4Number(parts[Len(parts)])))

\* forbidden domain code points of the alphabet that can reach the host parser
ForbiddenHostChars == {" ", "#", "/", ":", "?", "\\"}

\* the host parser for a special scheme: the serialized host, or NULL on failure
ParseHost(input) ==
  LET parse(ascii, parts) ==
        IF ascii = "" THEN NULL
        ELSE IF \E i \in 1..Len(ascii) : CharAt(ascii, i) \in ForbiddenHostChars THEN NULL
        ELSE IF EndsInANumber(parts) THEN ParseIPv4(parts)
        ELSE ascii
  IN  parse(toLowerCase(input), DropLastEmpty(Split(toLowerCase(input), {"."})))

\* port state: "" for the null port, NULL on failure
RECURSIVE PortValue(_, _)
PortValue(s, acc) ==
  IF s = "" THEN acc
  ELSE IF acc > 65535 THEN acc
  ELSE PortValue(Tail(s), acc * 10 + DigitValue(Head(s), 10))

ParsePort(scheme, buffer) ==
  IF \E i \in 1..Len(buffer) : ~IsDigit(CharAt(buffer, i)) THEN NULL
  ELSE IF buffer = "" THEN ""
  ELSE LET port == PortValue(buffer, 0)
       IN  IF port > 65535 THEN NULL
           ELSE IF port = DefaultPort(scheme) THEN ""
           ELSE ToDec(port)

\* percent-encoding of the alphabet: the space is the one character encoded
RECURSIVE PercentEncode(_)
PercentEncode(s) ==
  IF s = "" THEN ""
  ELSE (IF Head(s) = " " THEN "%20" ELSE Head(s)) \o PercentEncode(Tail(s))

\* path state: the segments, dot segments resolved; segs holds the raw segments
\* and the last of them is the one that ends at the end of the path
RECURSIVE PathSegments(_, _, _)
PathSegments(segs, i, path) ==
  IF i > Len(segs) THEN path
  ELSE LET buffer == segs[i]
           atEnd == i = Len(segs)
           next ==
             IF buffer = ".."
             THEN LET shortened == IF path = <<>> THEN path ELSE SubSeq(path, 1, Len(path) - 1)
                  IN  IF atEnd THEN Append(shortened, "") ELSE shortened
             ELSE IF buffer = "."
             THEN IF atEnd THEN Append(path, "") ELSE path
             ELSE Append(path, PercentEncode(buffer))
       IN  PathSegments(segs, i + 1, next)

RECURSIVE JoinPath(_)
JoinPath(path) == IF path = <<>> THEN "" ELSE "/" \o Head(path) \o JoinPath(Tail(path))

\* path start state and path state of a special URL: text runs to the query or fragment
ParsePath(text) ==
  LET body == IF text # "" /\ Head(text) \in {"/", "\\"} THEN Tail(text) ELSE text
  IN  JoinPath(PathSegments(Split(body, {"/", "\\"}), 1, <<>>))

\* host and port states, then path, query and fragment: a is the input from the
\* authority on, e the index that ends the authority, c the index of its colon
HostState(scheme, a, authority, e, c) ==
  LET finish(host, port, q, f) ==
        IF host = NULL \/ port = NULL THEN Failure
        ELSE [ok |-> TRUE, scheme |-> scheme, hostname |-> host, port |-> port,
              pathname |-> ParsePath(SubSeq(a, e, q - 1)),
              query |-> IF q <= Len(a) /\ CharAt(a, q) = "?"
                        THEN PercentEncode(SubSeq(a, q, f - 1)) ELSE "",
              fragment |-> IF f <= Len(a) THEN PercentEncode(SubSeq(a, f, Len(a))) ELSE ""]
  IN  finish(ParseHost(SubSeq(authority, 1, c - 1)),
             ParsePort(scheme, SubSeq(authority, c + 1, Len(authority))),
             FirstIndexOf(a, e, {"?", "#"}), FirstIndexOf(a, e, {"#"}))

\* authority state: the authority runs to the first / \ ? or #
AuthorityState(scheme, a) ==
  LET split(e) ==
        HostState(scheme, a, SubSeq(a, 1, e - 1), e,
                  FirstIndexOf(SubSeq(a, 1, e - 1), 1, {":"}))
  IN  split(FirstIndexOf(a, 1, {"/", "\\", "?", "#"}))

\* special authority slashes and special authority ignore slashes states
ParseSpecial(scheme, rest) ==
  AuthorityState(scheme, SubSeq(rest, FirstIndexNotOf(rest, {"/", "\\"}), Len(rest)))

\* new URL(s); a scheme without an authority of its own (mailto:, data:, ...) is not
\* modelled beyond its being no http(s) URL
URLParse(s) ==
  LET after(sch) ==
        IF ~sch.ok THEN Failure
        ELSE IF sch.scheme \in SpecialSchemes THEN ParseSpecial(sch.scheme, sch.rest)
        ELSE [ok |-> TRUE, scheme |-> sch.scheme, hostname |-> "", port |-> "",
              pathname |-> sch.rest, query |-> "", fragment |-> ""]
  IN  after(ParseScheme(trim(s)))

\* url.toString(): the URL serializer
URLToString(u) ==
  IF u.scheme \in SpecialSchemes
  THEN u.scheme \o "://" \o u.hostname \o (IF u.port = "" THEN "" ELSE ":" \o u.port)
         \o u.pathname \o u.query \o u.fragment
  ELSE u.scheme \o ":" \o u.pathname


(***************************************************************************)
(* JavaScript values: [t |-> type, v |-> text]                             *)
(***************************************************************************)
JsUndefined == [t |-> "undefined", v |-> ""]
JsNull == [t |-> "null", v |-> ""]
JsStr(s) == [t |-> "string", v |-> s]
JsNum(s) == [t |-> "number", v |-> s]
JsBool(s) == [t |-> "boolean", v |-> s]
JsObj(s) == [t |-> "object", v |-> s]

\* ToBoolean, as `||`, `!` and `if` apply it
Truthy(x) ==
  CASE x.t = "undefined" -> FALSE
    [] x.t = "null" -> FALSE
    [] x.t = "string" -> x.v # ""
    [] x.t = "number" -> x.v \notin {"0", "NaN"}
    [] x.t = "boolean" -> x.v = "true"
    [] x.t = "object" -> TRUE

\* JSON.parse on the texts the model service is given to return: a literal, a
\* number, a string without escapes, or an object written {...}
JSONParse(text) ==
  CASE text = "null" -> [ok |-> TRUE, value |-> JsNull]
    [] text \in {"true", "false"} -> [ok |-> TRUE, value |-> JsBool(text)]
    [] text # "" /\ (\A i \in 1..Len(text) : IsDigit(CharAt(text, i))) ->
         [ok |-> TRUE, value |-> JsNum(text)]
    [] Len(text) >= 2 /\ Head(text) = "\"" /\ CharAt(text, Len(text)) = "\"" ->
         [ok |-> TRUE, value |-> JsStr(SubSeq(text, 2, Len(text) - 1))]
    [] Len(text) >= 2 /\ Head(text) = "{" /\ CharAt(text, Len(text)) = "}" ->
         [ok |-> TRUE, value |-> JsObj(text)]
    [] OTHER -> [ok |-> FALSE, value |-> JsUndefined]

(***************************************************************************)
(* Configuration                                                           *)
(***************************************************************************)
EmbeddedKey == "gsk_embedded"

\* const GROQ_API_KEY = process.env.GROQ_API_KEY || "gsk_..."
GROQ_API_KEY(envKey) == IF Truthy(envKey) THEN envKey.v ELSE EmbeddedKey

CACHE_TTL_MS == 600000
FETCH_TIMEOUT_MS == 15000
MAX_HTML_LENGTH == 800000

(***************************************************************************)
(* The cache: a Map from key to [value, expires]                           *)
(***************************************************************************)
MapSet(m, key, entry) == [k \in DOMAIN m \cup {key} |-> IF k = key THEN entry ELSE m[k]]
MapDelete(m, key) == [k \in DOMAIN m \ {key} |-> m[k]]
EmptyMap == [k \in {} |-> JsUndefined]

\* setCache that keeps an entry that is already there
setCache_firstWins(c, key, value, t) ==
  IF key \in DOMAIN c THEN c
  ELSE MapSet(c, key, [value |-> value, expires |-> t + CACHE_TTL_MS])

\* setCache with the TTL left out of the expiry
setCache_noTtl(c, key, value, t) == MapSet(c, key, [value |-> value, expires |-> t])

setCache(c, key, value, t) == MapSet(c, key, [value |-> value, expires |-> t + CACHE_TTL_MS])

\* getCache with a sliding expiry: a read that hits renews the entry
getCache_touch(c, key, t) ==
  IF key \notin DOMAIN c THEN [cache |-> c, ret |-> JsNull]
  ELSE IF t > c[key].expires THEN [cache |-> MapDelete(c, key), ret |-> JsNull]
  ELSE [cache |-> MapSet(c, key, [value |-> c[key].value, expires |-> t + CACHE_TTL_MS]),
        ret |-> c[key].value]

\* getCache without the expiry test
getCache_stale(c, key, t) ==
  IF key \notin DOMAIN c THEN [cache |-> c, ret |-> JsNull]
  ELSE [cache |-> c, ret |-> c[key].value]

\* getCache that evicts every expired entry it comes across
getCache_sweep(c, key, t) ==
  LET live == [k \in {j \in DOMAIN c : t <= c[j].expires} |-> c[k]]
  IN  IF key \in DOMAIN live THEN [cache |-> live, ret |-> live[key].value]
      ELSE [cache |-> live, ret |-> JsNull]

\* getCache without the delete of an expired entry
getCache_noDelete(c, key, t) ==
  IF key \notin DOMAIN c THEN [cache |-> c, ret |-> JsNull]
  ELSE IF t > c[key].expires THEN [cache |-> c, ret |-> JsNull]
  ELSE [cache |-> c, ret |-> c[key].value]

\* the cache afterwards and the value returned
getCache(c, key, t) ==
  IF key \notin DOMAIN c THEN [cache |-> c, ret |-> JsNull]
  ELSE IF t > c[key].expires THEN [cache |-> MapDelete(c, key), ret |-> JsNull]
  ELSE [cache |-> c, ret |-> c[key].value]

(***************************************************************************)
(* Address normalization and the allow-check                               *)
(***************************************************************************)
\* /^https?:\/\//i.test(input)
hasProto(input) ==
  LET l == toLowerCase(input) IN startsWith(l, "http://") \/ startsWith(l, "https://")

normalizeUrl(input) ==
  LET toString(url) == IF url.ok THEN URLToString(url) ELSE NULL
  IN  toString(URLParse(IF hasProto(input) THEN input ELSE "https://" \o input))

\* isAllowedUrl without the .internal suffix
isAllowedUrl_noInternal(url) ==
  LET check(u) ==
        LET hostname == toLowerCase(u.hostname)
        IN  IF \/ hostname = "localhost"
               \/ endsWith(hostname, ".localhost")
               \/ endsWith(hostname, ".local")
               \/ hostname = "127.0.0.1"
               \/ hostname = "0.0.0.0"
            THEN FALSE
            ELSE TRUE
  IN  IF ~URLParse(url).ok THEN FALSE ELSE check(URLParse(url))

isAllowedUrl(url) ==
  LET check(u) ==
        LET hostname == toLowerCase(u.hostname)
        IN  IF \/ hostname = "localhost"
               \/ endsWith(hostname, ".localhost")
               \/ endsWith(hostname, ".local")
               \/ endsWith(hostname, ".internal")
               \/ hostname = "127.0.0.1"
               \/ hostname = "0.0.0.0"
            THEN FALSE
            ELSE TRUE
  IN  IF ~URLParse(url).ok THEN FALSE ELSE check(URLParse(url))

(***************************************************************************)
(* Page content: a page body is a run-length encoded string, a sequence of *)
(* runs [c |-> character, n |-> repetitions > 0] whose neighbours differ   *)
(***************************************************************************)
RECURSIVE RLen(_)
RLen(s) == IF s = <<>> THEN 0 ELSE Head(s).n + RLen(Tail(s))

\* s.slice(0, k)
RECURSIVE RSlice(_, _)
RSlice(s, k) ==
  IF s = <<>> \/ k <= 0 THEN <<>>
  ELSE IF Head(s).n <= k THEN <<Head(s)>> \o RSlice(Tail(s), k - Head(s).n)
  ELSE <<[c |-> Head(s).c, n |-> k]>>

\* clipHtml cutting one character short
clipHtml_offByOne(html) ==
  IF RLen(html) > MAX_HTML_LENGTH THEN RSlice(html, MAX_HTML_LENGTH - 1) ELSE html

\* html.length > MAX_HTML_LENGTH ? html.slice(0, MAX_HTML_LENGTH) : html
clipHtml(html) == IF RLen(html) > MAX_HTML_LENGTH THEN RSlice(html, MAX_HTML_LENGTH) ELSE html

SystemText ==
  "You are RESEARCH-WEB, an expert web intelligence analyst. Return ONLY strict JSON. Do not include markdown, prose, or code fences."

\* a template that leaves the URL out
buildPrompt_noUrl(u, html) ==
  << [role |-> "system", content |-> JsStr(SystemText)],
     [role |-> "user", content |-> [url |-> "", html |-> html]] >>

\* the two messages; the user message is the template with the URL and the HTML in it
buildPrompt(u, html) ==
  << [role |-> "system", content |-> JsStr(SystemText)],
     [role |-> "user", content |-> [url |-> u, html |-> html]] >>

NoPrompt == <<>>

\* a reply of the model service whose body res.json() rejects, and no reply
BrokenBody == [t |-> "broken", v |-> ""]
NoReply == [t |-> "none", v |-> ""]

(***************************************************************************)
(* Bounds and inputs                                                       *)
(***************************************************************************)
MaxReq == 2
MaxTicks == 2
MaxPieces == 3
MaxRun == 2

Requests == 1..MaxReq

\* the url field of the request bodies the server is sent
RawUrls ==
  { "example.com", " https://Example.com:443 ", "http://example.com",
    "localhost", "127.0.0.1", "0.0.0.0", "a.local", "b.internal", "c.localhost",
    "http://LOCALHOST:8080/p", "127.1", "", "exa mple.com" }

RequestUrls == { JsStr(s) : s \in RawUrls } \cup { JsUndefined, JsNum("123") }

\* what read of the page's body can deliver
PageBodies ==
  { <<[c |-> "a", n |-> 3]>>,
    <<[c |-> "a", n |-> MAX_HTML_LENGTH], [c |-> "b", n |-> 1]>> }

\* what a 2xx reply of the model service carries: choices[0].message.content of its
\* body, or a body that res.json() rejects
ModelReplies ==
  { BrokenBody, JsUndefined, JsStr("oops"), JsStr("0"), JsStr("null"),
    JsStr("{\"site\":1}"), JsStr("{\"site\":2}") }

\* the environment's GROQ_API_KEY
EnvKeys == { JsUndefined, JsStr("gsk_env") }

\* how far the clock moves in one step
Deltas == { FETCH_TIMEOUT_MS, CACHE_TTL_MS }

\* the pieces raw addresses are put together from, and the addresses of at most n
UrlPieces ==
  { "https://", "HTTP://", "http:", "ftp://", "example.com", "localhost", "a", ".",
    ":", "/", " ", "8" }

RECURSIVE Words(_)
Words(n) ==
  IF n = 0 THEN {""}
  ELSE LET shorter == Words(n - 1) IN shorter \cup { p \o w : p \in UrlPieces, w \in shorter }

\* run lengths near zero and near the maximum length
RunLengths == (1..MaxRun) \cup ((MAX_HTML_LENGTH - MaxRun)..(MAX_HTML_LENGTH + MaxRun))

\* page bodies of one, two and three runs
ClipBodies ==
  {<<>>}
    \cup { <<[c |-> "a", n |-> i]>> : i \in RunLengths }
    \cup { <<[c |-> "a", n |-> i], [c |-> "b", n |-> j]>> : i, j \in RunLengths }
    \cup { <<[c |-> "a", n |-> i], [c |-> "b", n |-> j], [c |-> "a", n |-> i]>> :
             i \in {1, MAX_HTML_LENGTH - 1}, j \in RunLengths }

NoResponse == [status |-> 0, json |-> [pending |-> TRUE]]

VARIABLES
  env,       \* process.env.GROQ_API_KEY
  now,       \* Date.now()
  ticks,     \* the clock steps taken
  cache,     \* the Map
  pc,        \* where each request's handler stands
  body,      \* req.body.url
  url,       \* the handler's url
  timer,     \* fetchSiteHTML's timeout: "none", "armed", "cleared", "fired"
  deadline,  \* when the armed timer is due
  aborted,   \* controller.signal.aborted
  prompt,    \* the handler's prompt
  reply,     \* the model service's reply, once its status line has come
  resp,      \* the response sent
  fetches,   \* page fetches issued, per request
  models,    \* model requests sent, per request
  lookups,   \* getCache calls, per request
  lastSet,   \* per key, the value and the time of the last setCache
  auth,      \* the Authorization credentials sent to the model service
  phase,     \* "serve", or how far a single address or page body has got
  input,     \* an address field
  normalized,\* its normalization
  allowed,   \* the allow-check's answer for it
  page,      \* a page body
  content    \* the content fetchSiteHTML returns for it

urlVars == <<input, normalized, allowed>>
clipVars == <<page, content>>
reqVars == <<pc, body, url, timer, deadline, aborted, prompt, reply, resp, fetches, models,
             lookups, lastSet, auth>>
vars == <<env, now, ticks, cache, reqVars, phase, phase, urlVars, clipVars>>

\* the server as it starts up
Started ==
  /\ now = 0
  /\ ticks = 0
  /\ cache = EmptyMap
  /\ pc = [r \in Requests |-> "idle"]
  /\ body = [r \in Requests |-> JsUndefined]
  /\ url = [r \in Requests |-> NULL]
  /\ timer = [r \in Requests |-> "none"]
  /\ deadline = [r \in Requests |-> 0]
  /\ aborted = [r \in Requests |-> FALSE]
  /\ prompt = [r \in Requests |-> NoPrompt]
  /\ reply = [r \in Requests |-> NoReply]
  /\ resp = [r \in Requests |-> NoResponse]
  /\ fetches = [r \in Requests |-> 0]
  /\ models = [r \in Requests |-> 0]
  /\ lookups = [r \in Requests |-> 0]
  /\ lastSet = EmptyMap
  /\ auth = {}

Init ==
  /\ env \in EnvKeys
  /\ Started
  /\ phase = "serve"
  /\ input = ""
  /\ normalized = NULL
  /\ allowed = FALSE
  /\ page = <<>>
  /\ content = <<>>

(***************************************************************************)
(* POST /analyze                                                           *)
(***************************************************************************)
\* res.status(status).json(json) ends the request; its locals are gone
Respond(r, status, json) ==
  /\ pc' = [pc EXCEPT ![r] = "done"]
  /\ resp' = [resp EXCEPT ![r] = [status |-> status, json |-> json]]
  /\ body' = [body EXCEPT ![r] = JsUndefined]
  /\ url' = [url EXCEPT ![r] = NULL]
  /\ prompt' = [prompt EXCEPT ![r] = NoPrompt]
  /\ reply' = [reply EXCEPT ![r] = NoReply]

\* the catch block answering without the status: res.json({ error })
Catch_noStatus(r, message) ==
  Respond(r, 200, [error |-> IF message = "" THEN "Analysis failed" ELSE message])

\* the catch block: res.status(500).json({ error: err.message || 'Analysis failed' })
Catch(r, message) ==
  Respond(r, 500, [error |-> IF message = "" THEN "Analysis failed" ELSE message])

\* a rejection thrown to the catch block instead of returned
Reject_thrown(r, message) ==
  /\ Respond(r, 500, [error |-> message])
  /\ UNCHANGED <<cache, timer, deadline, fetches, lookups>>

\* return res.status(400).json({ error: message }): nothing else is done
Reject(r, message) ==
  /\ Respond(r, 400, [error |-> message])
  /\ UNCHANGED <<cache, timer, deadline, fetches, lookups>>

\* fetchSiteHTML without its finally block
clearTimeout_forgotten(r) == UNCHANGED <<timer, deadline>>

\* clearTimeout(timeout) in fetchSiteHTML's finally; the timer object goes with the
\* call's frame
clearTimeout(r) ==
  /\ timer' = [timer EXCEPT ![r] = IF @ = "armed" THEN "cleared" ELSE @]
  /\ deadline' = [deadline EXCEPT ![r] = 0]

\* express.json() has parsed the body; the handler has not run yet.  Requests are
\* numbered in the order they arrive
Arrive(r) ==
  /\ pc[r] = "idle"
  /\ \A q \in Requests : q < r => pc[q] # "idle"
  /\ \E b \in RequestUrls : body' = [body EXCEPT ![r] = b]
  /\ pc' = [pc EXCEPT ![r] = "received"]
  /\ UNCHANGED <<env, now, ticks, cache, url, timer, deadline, aborted, prompt, reply,
                 resp, fetches, models, lookups, lastSet, auth, phase, urlVars, clipVars>>

\* the handler from its first line to its first await: validation, the cache
\* lookup and, on a miss, the start of fetchSiteHTML.  u is the handler's url and
\* the handler with an in-flight map: a miss for an address another request is
\* already fetching joins that request's fetch instead of issuing its own
Handle_coalesced(r) ==
  /\ pc[r] = "received"
  /\ LET field == IF Truthy(body[r]) THEN body[r] ELSE JsStr("")
     IN  IF field.t # "string"
         THEN /\ Catch(r, "trim is not a function")
              /\ UNCHANGED <<cache, timer, deadline, fetches, lookups>>
         ELSE \E u \in {normalizeUrl(trim(field.v))} :
              \E cached \in {getCache(cache, u, now)} :
                  IF u = NULL
                  THEN Reject(r, "Invalid URL")
                  ELSE IF ~isAllowedUrl(u)
                  THEN Reject(r, "URL not allowed")
                  ELSE /\ cache' = cached.cache
                       /\ lookups' = [lookups EXCEPT ![r] = @ + 1]
                       /\ IF Truthy(cached.ret)
                          THEN /\ Respond(r, 200, [cached |-> TRUE, data |-> cached.ret])
                               /\ UNCHANGED <<timer, deadline, fetches>>
                          ELSE /\ url' = [url EXCEPT ![r] = u]
                               /\ timer' = [timer EXCEPT ![r] = "armed"]
                               /\ deadline' = [deadline EXCEPT ![r] = now + FETCH_TIMEOUT_MS]
                               /\ fetches' = [fetches EXCEPT ![r] =
                                    IF \E q \in Requests \ {r} : url[q] = u THEN @ ELSE @ + 1]
                               /\ pc' = [pc EXCEPT ![r] = "fetching"]
                               /\ UNCHANGED <<body, prompt, reply, resp>>
  /\ UNCHANGED <<env, now, ticks, aborted, models, lastSet, auth, phase, urlVars, clipVars>>

\* cached what getCache(url) does and returns; the lookup is made only once the
\* two checks have passed
Handle(r) ==
  /\ pc[r] = "received"
  /\ LET field == IF Truthy(body[r]) THEN body[r] ELSE JsStr("")
     IN  IF field.t # "string"
         THEN /\ Catch(r, "trim is not a function")
              /\ UNCHANGED <<cache, timer, deadline, fetches, lookups>>
         ELSE \E u \in {normalizeUrl(trim(field.v))} :
              \E cached \in {getCache(cache, u, now)} :
                  IF u = NULL
                  THEN Reject(r, "Invalid URL")
                  ELSE IF ~isAllowedUrl(u)
                  THEN Reject(r, "URL not allowed")
                  ELSE /\ cache' = cached.cache
                       /\ lookups' = [lookups EXCEPT ![r] = @ + 1]
                       /\ IF Truthy(cached.ret)
                          THEN /\ Respond(r, 200, [cached |-> TRUE, data |-> cached.ret])
                               /\ UNCHANGED <<timer, deadline, fetches>>
                          ELSE /\ url' = [url EXCEPT ![r] = u]
                               /\ timer' = [timer EXCEPT ![r] = "armed"]
                               /\ deadline' = [deadline EXCEPT ![r] = now + FETCH_TIMEOUT_MS]
                               /\ fetches' = [fetches EXCEPT ![r] = @ + 1]
                               /\ pc' = [pc EXCEPT ![r] = "fetching"]
                               /\ UNCHANGED <<body, prompt, reply, resp>>
  /\ UNCHANGED <<env, now, ticks, aborted, models, lastSet, auth, phase, urlVars, clipVars>>

\* the timer's callback: controller.abort()
TimerFire(r) ==
  /\ timer[r] = "armed"
  /\ now >= deadline[r]
  /\ timer' = [timer EXCEPT ![r] = "fired"]
  /\ deadline' = [deadline EXCEPT ![r] = 0]
  /\ aborted' = [aborted EXCEPT ![r] = TRUE]
  /\ UNCHANGED <<env, now, ticks, cache, pc, body, url, prompt, reply, resp,
                 fetches, models, lookups, lastSet, auth, phase, urlVars, clipVars>>

\* await fetch(targetUrl) settles with the page's status line
FetchResponse(r) ==
  /\ pc[r] = "fetching"
  /\ ~aborted[r]
  /\ \E ok \in BOOLEAN :
       IF ok
       THEN /\ pc' = [pc EXCEPT ![r] = "reading"]
            /\ UNCHANGED <<body, url, prompt, reply, resp, timer, deadline>>
       ELSE /\ clearTimeout(r)
            /\ Catch(r, "Upstream fetch failed")
  /\ UNCHANGED <<env, now, ticks, cache, aborted, fetches, models, lookups, lastSet,
                 auth, phase, urlVars, clipVars>>

\* a fetch that is tried once more after a network failure
FetchReject_retry(r) ==
  /\ pc[r] \in {"fetching", "reading"}
  /\ IF aborted[r] \/ fetches[r] > 1
     THEN /\ clearTimeout(r)
          /\ Catch(r, IF aborted[r] THEN "The operation was aborted" ELSE "network error")
          /\ UNCHANGED fetches
     ELSE /\ fetches' = [fetches EXCEPT ![r] = @ + 1]
          /\ pc' = [pc EXCEPT ![r] = "fetching"]
          /\ UNCHANGED <<body, url, prompt, reply, resp, timer, deadline>>
  /\ UNCHANGED <<env, now, ticks, cache, aborted, models, lookups, lastSet,
                 auth, phase, urlVars, clipVars>>

\* await fetch(...) or await res.text() rejects: the transfer was aborted, or the
\* network failed
FetchReject(r) ==
  /\ pc[r] \in {"fetching", "reading"}
  /\ clearTimeout(r)
  /\ Catch(r, IF aborted[r] THEN "The operation was aborted" ELSE "network error")
  /\ UNCHANGED <<env, now, ticks, cache, aborted, fetches, models, lookups, lastSet,
                 auth, phase, urlVars, clipVars>>

\* await res.text() settles: the clip, the finally, buildPrompt and callGroq up to
\* its await fetch(GROQ_ENDPOINT)
BodyRead(r) ==
  /\ pc[r] = "reading"
  /\ ~aborted[r]
  /\ \E text \in PageBodies :
       prompt' = [prompt EXCEPT ![r] = buildPrompt(url[r], clipHtml(text))]
  /\ clearTimeout(r)
  /\ models' = [models EXCEPT ![r] = @ + 1]
  /\ auth' = auth \cup {GROQ_API_KEY(env)}
  /\ pc' = [pc EXCEPT ![r] = "model_calling"]
  /\ UNCHANGED <<env, now, ticks, cache, body, url, aborted, reply, resp, fetches,
                 lookups, lastSet, phase, urlVars, clipVars>>

\* await fetch(GROQ_ENDPOINT) settles with the service's status line; on a status
\* outside 2xx the body is read for the message and thrown, on a 2xx status the
\* body is awaited
ModelResponse(r) ==
  /\ pc[r] = "model_calling"
  /\ \/ Catch(r, "Groq API error")
     \/ /\ \E m \in ModelReplies : reply' = [reply EXCEPT ![r] = m]
        /\ pc' = [pc EXCEPT ![r] = "model_reading"]
        /\ UNCHANGED <<body, url, prompt, resp>>
  /\ UNCHANGED <<env, now, ticks, cache, timer, deadline, aborted, fetches, models,
                 lookups, lastSet, auth, phase, urlVars, clipVars>>

\* await fetch(GROQ_ENDPOINT) rejects: the network failed
ModelReject(r) ==
  /\ pc[r] = "model_calling"
  /\ Catch(r, "network error")
  /\ UNCHANGED <<env, now, ticks, cache, timer, deadline, aborted, fetches, models,
                 lookups, lastSet, auth, phase, urlVars, clipVars>>

\* await res.json() settles: the content check, JSON.parse, setCache and the response
ModelBody(r) ==
  /\ pc[r] = "model_reading"
  /\ IF reply[r] = BrokenBody
     THEN Catch(r, "invalid json response body") /\ UNCHANGED <<cache, lastSet>>
     ELSE IF ~Truthy(reply[r])
     THEN Catch(r, "Groq API returned no content") /\ UNCHANGED <<cache, lastSet>>
     ELSE \E parsed \in {JSONParse(reply[r].v)} :
          IF ~parsed.ok
          THEN Catch(r, "Unexpected token in JSON") /\ UNCHANGED <<cache, lastSet>>
          ELSE /\ cache' = setCache(cache, url[r], parsed.value, now)
               /\ lastSet' = MapSet(lastSet, url[r], [value |-> parsed.value, at |-> now])
               /\ Respond(r, 200, [cached |-> FALSE, data |-> parsed.value])
  /\ UNCHANGED <<env, now, ticks, timer, deadline, aborted, fetches, models, lookups,
                 auth, phase, urlVars, clipVars>>

\* time passes while requests are still to be served; a timer that is due runs
\* before the clock moves past it
Tick ==
  /\ ticks < MaxTicks
  /\ \E r \in Requests : pc[r] # "done"
  /\ \E d \in Deltas :
       /\ \A r \in Requests : timer[r] = "armed" => now + d <= deadline[r]
       /\ now' = now + d
  /\ ticks' = ticks + 1
  /\ UNCHANGED <<env, cache, reqVars, phase, urlVars, clipVars>>

Next ==
  \/ \E r \in Requests : Arrive(r)
  \/ \E r \in Requests : Handle(r)
  \/ \E r \in Requests : TimerFire(r)
  \/ \E r \in Requests : FetchResponse(r)
  \/ \E r \in Requests : FetchReject(r)
  \/ \E r \in Requests : BodyRead(r)
  \/ \E r \in Requests : ModelResponse(r)
  \/ \E r \in Requests : ModelReject(r)
  \/ \E r \in Requests : ModelBody(r)
  \/ Tick

Spec == Init /\ [][Next]_vars

(***************************************************************************)
(* The server under the scheduling of the event loop.  What the runtime    *)
(* guarantees: a request that has arrived gets its handler run, time       *)
(* passes, a timer that is due gets its callback run, and a fetch whose    *)
(* signal was aborted rejects.  What a page host or the model service      *)
(* sends, and when, is guaranteed by nothing.                              *)
(***************************************************************************)
\* the earliest deadline among the timers that are armed
NextDeadline ==
  CHOOSE d \in {deadline[r] : r \in {q \in Requests : timer[q] = "armed"}} :
    \A r \in Requests : timer[r] = "armed" => d <= deadline[r]

\* time passes until the next armed timer is due, however many clock steps were
\* taken before
TimerDue ==
  /\ ticks = MaxTicks
  /\ \E r \in Requests : timer[r] = "armed"
  /\ \A r \in Requests : timer[r] = "armed" => now < deadline[r]
  /\ now' = NextDeadline
  /\ UNCHANGED <<env, ticks, cache, reqVars, phase, urlVars, clipVars>>

\* the rejection of a fetch whose signal was aborted
AbortReject(r) == aborted[r] /\ FetchReject(r)

\* the step Handle(r) takes, by its effect on the request's stage: it is enabled
\* exactly when Handle(r) is (a request that was received), and the steps that
\* take a request out of "received" are the steps of Handle(r)
HandlerRuns(r) ==
  /\ pc[r] = "received"
  /\ pc' \in {[pc EXCEPT ![r] = stage] : stage \in {"fetching", "done"}}

\* the requests followed under fair scheduling: one request on its own, since no
\* step of a request waits for another request
LiveRequests == {1}

NextLive ==
  \/ \E r \in LiveRequests : Arrive(r)
  \/ \E r \in LiveRequests : Handle(r)
  \/ \E r \in LiveRequests : TimerFire(r)
  \/ \E r \in LiveRequests : FetchResponse(r)
  \/ \E r \in LiveRequests : FetchReject(r)
  \/ \E r \in LiveRequests : BodyRead(r)
  \/ \E r \in LiveRequests : ModelResponse(r)
  \/ \E r \in LiveRequests : ModelReject(r)
  \/ \E r \in LiveRequests : ModelBody(r)
  \/ Tick
  \/ TimerDue

Fairness ==
  /\ WF_vars(Tick)
  /\ WF_vars(TimerDue)
  /\ \A r \in LiveRequests :
       /\ WF_pc(HandlerRuns(r))
       /\ WF_vars(TimerFire(r))
       /\ WF_vars(AbortReject(r))

SpecLive == Init /\ [][NextLive]_vars /\ Fairness

(***************************************************************************)
(* Normalization and the allow-check on their own: one address field goes  *)
(* through the handler's first lines                                       *)
(***************************************************************************)
InitUrl ==
  /\ env = JsUndefined
  /\ Started
  /\ phase = "input"
  /\ input \in Words(MaxPieces)
  /\ normalized = NULL
  /\ allowed = FALSE
  /\ page = <<>>
  /\ content = <<>>

\* const url = normalizeUrl(rawUrl), rawUrl the trimmed field
Normalize ==
  /\ phase = "input"
  /\ normalized' = normalizeUrl(trim(input))
  /\ phase' = "normalized"
  /\ UNCHANGED <<env, now, ticks, cache, reqVars, input, allowed, clipVars>>

\* isAllowedUrl(url), reached when url is not null
CheckAllowed ==
  /\ phase = "normalized"
  /\ normalized # NULL
  /\ allowed' = isAllowedUrl(normalized)
  /\ phase' = "checked"
  /\ UNCHANGED <<env, now, ticks, cache, reqVars, input, normalized, clipVars>>

NextUrl == Normalize \/ CheckAllowed

SpecUrl == InitUrl /\ [][NextUrl]_vars

(***************************************************************************)
(* The clip on its own: one page body goes through fetchSiteHTML's return  *)
(***************************************************************************)
InitClip ==
  /\ env = JsUndefined
  /\ Started
  /\ phase = "page"
  /\ input = ""
  /\ normalized = NULL
  /\ allowed = FALSE
  /\ page \in ClipBodies
  /\ content = <<>>

Clip ==
  /\ phase = "page"
  /\ content' = clipHtml(page)
  /\ phase' = "clipped"
  /\ UNCHANGED <<env, now, ticks, cache, reqVars, urlVars, page>>

NextClip == Clip

SpecClip == InitClip /\ [][NextClip]_vars

(***************************************************************************)
(* Properties                                                              *)
(***************************************************************************)
\* the url field as the handler reads it: (req.body?.url || '') is a string
IsStringField(b) == ~Truthy(b) \/ b.t = "string"
RawUrlOf(b) == IF Truthy(b) THEN trim(b.v) ELSE ""

\* request r runs the handler's first segment in this step
Handles(r) == pc[r] = "received" /\ pc'[r] # "received"

TenMinutes == 10 * 60 * 1000
FifteenSeconds == 15 * 1000

\* C1: a request whose normalized address has an unexpired cache entry when it
\* looks the cache up ends in CACHE_HIT, whatever value the entry holds: 200,
\* cached = true, data the stored value, no page fetch and no model call.
C1_UnexpiredEntryIsServed ==
  [][\A r \in Requests :
       (Handles(r) /\ IsStringField(body[r])) =>
         LET u == normalizeUrl(RawUrlOf(body[r]))
         IN  (u # NULL /\ u \in DOMAIN cache /\ now <= cache[u].expires) =>
               /\ pc'[r] = "done"
               /\ resp'[r] = [status |-> 200,
                              json |-> [cached |-> TRUE, data |-> cache[u].value]]
               /\ fetches'[r] = 0
               /\ models'[r] = 0]_vars

\* the reply carries content that parses as JSON
ValidReply(m) == m.t = "string" /\ m.v # "" /\ JSONParse(m.v).ok

\* C2: a request that passed validation, missed the cache and whose fetch and
\* model invocation succeeded ends in CACHED: the cache holds, under the request's
\* normalized address, the parsed model output with expiry = time of the write +
\* TTL, and the response is 200 with cached = false and that same value as data.
C2_SuccessIsCached ==
  [][\A r \in Requests :
       (pc[r] = "model_reading" /\ pc'[r] # pc[r] /\ ValidReply(reply[r])) =>
         LET v == JSONParse(reply[r].v).value
         IN  /\ pc'[r] = "done"
             /\ url[r] \in DOMAIN cache'
             /\ cache'[url[r]] = [value |-> v, expires |-> now + TenMinutes]
             /\ resp'[r] = [status |-> 200, json |-> [cached |-> FALSE, data |-> v]]]_vars

C2_Witness ==
  \E r \in Requests :
    /\ pc[r] = "done"
    /\ resp[r].status = 200
    /\ ~resp[r].json.cached
    /\ \E k \in DOMAIN cache : cache[k].value = resp[r].json.data

\* the request ends in this step, having done nothing beyond validation
EndsQuietly(r) ==
  /\ pc'[r] = "done"
  /\ cache' = cache
  /\ lastSet' = lastSet
  /\ lookups'[r] = 0
  /\ fetches'[r] = 0
  /\ models'[r] = 0

\* C3: when normalization of the trimmed url field fails (an empty or missing
\* field included) the response is 400 'Invalid URL'; when it succeeds and the
\* allow-check fails the response is 400 'URL not allowed'; either way the request
\* reads and writes no cache entry, fetches no page and calls no model.
C3_RejectionDoesNothingElse ==
  [][\A r \in Requests :
       (Handles(r) /\ IsStringField(body[r])) =>
         LET u == normalizeUrl(RawUrlOf(body[r]))
         IN  /\ u = NULL =>
                  /\ resp'[r] = [status |-> 400, json |-> [error |-> "Invalid URL"]]
                  /\ EndsQuietly(r)
             /\ (u # NULL /\ ~isAllowedUrl(u)) =>
                  /\ resp'[r] = [status |-> 400, json |-> [error |-> "URL not allowed"]]
                  /\ EndsQuietly(r)]_vars

C3_Witness ==
  \E r, q \in Requests :
    /\ pc[r] = "done" /\ resp[r] = [status |-> 400, json |-> [error |-> "Invalid URL"]]
    /\ pc[q] = "done" /\ resp[q] = [status |-> 400, json |-> [error |-> "URL not allowed"]]
    /\ lookups[r] = 0 /\ lookups[q] = 0

\* request r leaves the stage it is in, in this step
Leaves(r) == pc'[r] # pc[r]

\* request r ends FAILED in this step: a 500 whose body is one non-empty error
\* string, no entry written, no further fetch or model call
EndsFailed(r) ==
  /\ pc'[r] = "done"
  /\ resp'[r].status = 500
  /\ DOMAIN resp'[r].json = {"error"}
  /\ resp'[r].json.error # ""
  /\ cache' = cache
  /\ lastSet' = lastSet
  /\ fetches'[r] = fetches[r]
  /\ models'[r] = models[r]

\* the stage that follows each stage of the pipeline
NextStage(stage) ==
  CASE stage = "fetching" -> "reading"
    [] stage = "reading" -> "model_calling"
    [] stage = "model_calling" -> "model_reading"
    [] stage = "model_reading" -> "done"

\* C4: for a validated request that missed the cache, a failure of the page fetch
\* (non-2xx, network error, timeout) or of the model client (non-2xx, missing
\* content, content that is no JSON) ends the request FAILED: 500 with a single
\* error string, no later stage runs, and the cache is left as it was.
C4_FailureEndsFailed ==
  [][\A r \in Requests :
       /\ (pc[r] \in {"fetching", "reading", "model_calling", "model_reading"} /\ Leaves(r)) =>
            \/ EndsFailed(r)
            \/ pc'[r] = NextStage(pc[r]) /\ (pc'[r] = "done" => resp'[r].status = 200)
       /\ (pc[r] \in {"fetching", "reading"} /\ aborted[r] /\ Leaves(r)) => EndsFailed(r)
       /\ (pc[r] = "model_reading" /\ ~ValidReply(reply[r]) /\ Leaves(r)) => EndsFailed(r)
       /\ pc[r] = "done" =>
            /\ pc'[r] = "done" /\ resp'[r] = resp[r]
            /\ fetches'[r] = fetches[r] /\ models'[r] = models[r]]_vars

C4_Witness ==
  \E r, q \in Requests :
    /\ pc[r] = "done" /\ resp[r].status = 200 /\ ~resp[r].json.cached
    /\ pc[q] = "done" /\ resp[q] = [status |-> 500, json |-> [error |-> "Unexpected token in JSON"]]
    /\ fetches[q] = 1 /\ models[q] = 1
    /\ \A k \in DOMAIN cache : cache[k].value = resp[r].json.data

\* C5: set(k, v) followed by get(k) before the TTL has elapsed returns v; a
\* get(k) after the TTL has elapsed returns absent and leaves no entry for k.
C5_RoundTripAndLazyExpiry ==
  \A k \in DOMAIN lastSet :
    LET got == getCache(cache, k, now)
        age == now - lastSet[k].at
    IN  /\ age < TenMinutes => got.ret = lastSet[k].value /\ got.cache = cache
        /\ age > TenMinutes => got.ret = JsNull /\ k \notin DOMAIN got.cache

\* a get has removed an entry that was set
C5_Witness ==
  \E k \in DOMAIN lastSet :
    /\ k \notin DOMAIN cache
    /\ now - lastSet[k].at > TenMinutes
    /\ \E r \in Requests : lookups[r] = 1 /\ pc[r] = "fetching"

\* C6: a page fetch whose response (headers and body) is not complete 15 s after
\* it was started is aborted and fails, the request ends FAILED with a 500 and
\* calls no model; a fetch that completes within the budget is not aborted and
\* its timer is cancelled.
C6_FetchTimeout ==
  /\ [](\A r \in Requests :
          pc[r] \in {"fetching", "reading"} =>
            \/ timer[r] = "armed" /\ ~aborted[r] /\ now <= deadline[r]
            \/ timer[r] = "fired" /\ aborted[r])
  /\ [][\A r \in Requests :
          /\ (Handles(r) /\ pc'[r] = "fetching") =>
               timer'[r] = "armed" /\ deadline'[r] = now + FifteenSeconds
          /\ (timer[r] = "armed" /\ timer'[r] = "fired") =>
               now >= deadline[r] /\ aborted'[r] /\ pc[r] \in {"fetching", "reading"}
          /\ (pc[r] \in {"fetching", "reading"} /\ aborted[r] /\ Leaves(r)) =>
               EndsFailed(r) /\ models'[r] = 0
          /\ (pc[r] = "reading" /\ pc'[r] = "model_calling") =>
               ~aborted'[r] /\ timer'[r] = "cleared"
          /\ (pc[r] \in {"fetching", "reading"} /\ pc'[r] = "done") =>
               timer'[r] # "armed"]_vars

C6_Witness ==
  \E r, q \in Requests :
    /\ pc[r] = "done" /\ timer[r] = "fired" /\ models[r] = 0
    /\ resp[r] = [status |-> 500, json |-> [error |-> "The operation was aborted"]]
    /\ pc[q] = "model_calling" /\ timer[q] = "cleared" /\ now = FifteenSeconds

\* C7: in a run where configuration supplies no credential, no request is ever
\* sent to the model service, and the credential shipped in the source is never
\* used.
C7_NoCredentialNoModelCall ==
  ~Truthy(env) => (auth = {} /\ \A r \in Requests : models[r] = 0)

\* the hostnames the denylist names
DeniedHostname(h) ==
  \/ h \in {"localhost", "127.0.0.1", "0.0.0.0"}
  \/ \E suffix \in {".localhost", ".local", ".internal"} :
       Len(h) >= Len(suffix) /\ SubSeq(h, Len(h) - Len(suffix) + 1, Len(h)) = suffix

\* C8: isAllowed is false for every address whose hostname is localhost,
\* 127.0.0.1 or 0.0.0.0 or ends in .localhost, .local or .internal, and true for
\* every other parseable address; so no page fetch is ever issued to an address
\* with such a hostname.
C8_DenylistGuardsFetch ==
  \A r \in Requests :
    /\ (pc[r] = "received" /\ IsStringField(body[r])) =>
         LET u == normalizeUrl(RawUrlOf(body[r]))
         IN  u # NULL => (isAllowedUrl(u) <=> ~DeniedHostname(URLParse(u).hostname))
    /\ pc[r] \in {"fetching", "reading"} => ~DeniedHostname(URLParse(url[r]).hostname)
    /\ fetches[r] > 0 => (pc[r] = "done" => resp[r].json # [error |-> "URL not allowed"])

C8_Witness ==
  \E r, q \in Requests :
    /\ pc[r] = "done" /\ resp[r] = [status |-> 400, json |-> [error |-> "URL not allowed"]]
    /\ fetches[r] = 0
    /\ pc[q] = "fetching" /\ url[q] = "http://example.com/"

\* the character at index i of a run-length encoded string
RECURSIVE RCharAt(_, _)
RCharAt(s, i) == IF i <= Head(s).n THEN Head(s).c ELSE RCharAt(Tail(s), i - Head(s).n)

\* the first index of every run of s
RECURSIVE RunStarts(_, _)
RunStarts(s, from) ==
  IF s = <<>> THEN {} ELSE {from} \cup RunStarts(Tail(s), from + Head(s).n)

\* p is a prefix of s: they agree wherever a run of either starts within p
IsPrefixOf(p, s) ==
  /\ RLen(p) <= RLen(s)
  /\ \A i \in (RunStarts(p, 1) \cup RunStarts(s, 1)) \cap (1..RLen(p)) :
       RCharAt(p, i) = RCharAt(s, i)

EightHundredThousand == 800 * 1000

\* C9: for a body longer than 800,000 characters the returned content has exactly
\* that length and is the body's prefix of that length; a body that is not longer
\* is returned unchanged.
C9_Truncation ==
  phase = "clipped" =>
    /\ RLen(page) > EightHundredThousand =>
         RLen(content) = EightHundredThousand /\ IsPrefixOf(content, page)
    /\ RLen(page) <= EightHundredThousand => content = page

C9_Witness ==
  /\ phase = "clipped"
  /\ RLen(page) = EightHundredThousand + 1
  /\ Len(page) = 3
  /\ RLen(content) = EightHundredThousand
  /\ content # page

\* URLParse and url.toString() together, NULL for a failed parse
Href(u) == IF u.ok THEN URLToString(u) ELSE NULL

\* the address begins with one of the schemes of the web followed by ://
CarriesScheme(t) ==
  /\ ParseScheme(t).ok
  /\ ParseScheme(t).scheme \in SpecialSchemes
  /\ startsWith(ParseScheme(t).rest, "//")

\* C10: an input that lacks a scheme gets https:// prepended before it is
\* parsed, an input that carries a scheme is parsed as given, and what does not
\* parse after that is Rejected.
C10_SchemeParsedAsGiven ==
  phase \in {"normalized", "checked"} =>
    LET t == trim(input)
    IN  normalized = Href(URLParse(IF CarriesScheme(t) THEN t ELSE "https://" \o t))

\* request r has missed the cache and has not answered yet
InFlight(r) == pc[r] \in {"fetching", "reading", "model_calling", "model_reading"}

\* C11: no request coalescing.  Two requests for the same normalized address that
\* both looked the cache up before either wrote each issue their own page fetch
\* and their own model invocation; neither waits for the other or reuses its
\* pending result.
C11_NoCoalescing ==
  /\ [](\A r \in Requests :
          InFlight(r) =>
            /\ lookups[r] = 1 /\ fetches[r] = 1
            /\ models[r] = (IF pc[r] \in {"model_calling", "model_reading"} THEN 1 ELSE 0))
  /\ [](\A r \in Requests :
          (pc[r] = "done" /\ resp[r].status = 200 /\ ~resp[r].json.cached) =>
            fetches[r] = 1 /\ models[r] = 1)
  /\ [][\A r, q \in Requests :
          (r # q /\ Handles(r) /\ IsStringField(body[r]) /\ InFlight(q)
             /\ normalizeUrl(RawUrlOf(body[r])) = url[q] /\ url[q] \notin DOMAIN cache) =>
            /\ pc'[r] = "fetching" /\ fetches'[r] = 1 /\ url'[r] = url[q]
            /\ pc'[q] = pc[q] /\ fetches'[q] = fetches[q] /\ models'[q] = models[q]]_vars
  /\ [][\A r, q \in Requests :
          (r # q /\ InFlight(r) /\ InFlight(q) /\ url[r] = url[q] /\ Leaves(r)) =>
            /\ pc'[q] = pc[q] /\ reply'[q] = reply[q] /\ prompt'[q] = prompt[q]
            /\ resp'[q] = resp[q]]_vars

\* two requests for one address, both past their own fetch and at the model
C11_Witness ==
  \E r, q \in Requests :
    /\ r # q /\ url[r] # NULL /\ url[r] = url[q]
    /\ pc[r] = "model_calling" /\ pc[q] = "model_calling"
    /\ fetches[r] = 1 /\ fetches[q] = 1 /\ models[r] = 1 /\ models[q] = 1
    /\ cache = EmptyMap

\* request r writes its result under key k in this step
Writes(r, k) ==
  /\ pc[r] = "model_reading" /\ pc'[r] = "done" /\ url[r] = k
  /\ resp'[r].status = 200 /\ ~resp'[r].json.cached
  /\ k \in DOMAIN cache'
  /\ cache'[k] = [value |-> resp'[r].json.data, expires |-> now + TenMinutes]

\* C12 as stated: once an entry for a normalized address has been created, its
\* value and its expiry time do not change until the entry has expired, under
\* every interleaving of concurrent requests.
C12_EntryNeverChangesBeforeExpiry ==
  [][\A k \in DOMAIN cache :
       now <= cache[k].expires => (k \in DOMAIN cache' /\ cache'[k] = cache[k])]_vars

\* C12, amended: a cache entry is never changed by a read.  Until it has expired
\* its value and its expiry change only when a request that went through its own
\* fetch and model call writes its result for the same address, which replaces
\* value and expiry together (as the later of two concurrent misses does);
\* neither a lookup nor a request for another address changes it.
C12_EntryChangedOnlyByWrite ==
  [][\A k \in DOMAIN cache :
       /\ now <= cache[k].expires => k \in DOMAIN cache'
       /\ (k \in DOMAIN cache' /\ cache'[k] # cache[k]) => \E r \in Requests : Writes(r, k)
       /\ (\E r \in Requests : Handles(r)) =>
            (k \in DOMAIN cache' => cache'[k] = cache[k])]_vars

\* both requests have written under one address, the later over the earlier's
\* unexpired entry, and a lookup has hit
C12_Witness ==
  \E r, q \in Requests :
    /\ r # q /\ pc[r] = "done" /\ pc[q] = "done"
    /\ resp[r].status = 200 /\ resp[q].status = 200
    /\ ~resp[r].json.cached /\ ~resp[q].json.cached
    /\ resp[r].json.data # resp[q].json.data
    /\ Truthy(resp[r].json.data) /\ Truthy(resp[q].json.data)
    /\ \E k \in DOMAIN cache : DOMAIN cache = {k} /\ cache[k].value = resp[q].json.data
    /\ now = 0

\* the place of each stage in the pipeline
Rank(stage) ==
  CASE stage = "idle" -> 0
    [] stage = "received" -> 1
    [] stage = "fetching" -> 2
    [] stage = "reading" -> 3
    [] stage = "model_calling" -> 4
    [] stage = "model_reading" -> 5
    [] stage = "done" -> 6

\* C13: within every request the stages run in the order received, validated,
\* cache lookup, fetch, prompt build, model invocation, cache write, response.  The
\* model is invoked only after that request's fetch has completed successfully,
\* the cache is written only after that request's model output has parsed as JSON,
\* and a request makes at most one page fetch, one model invocation and one cache
\* write.
C13_StagesInOrder ==
  /\ [](\A r \in Requests :
          /\ lookups[r] <= 1 /\ fetches[r] <= 1 /\ models[r] <= 1
          /\ models[r] <= fetches[r] /\ fetches[r] <= lookups[r]
          /\ (prompt[r] # NoPrompt) = (pc[r] \in {"model_calling", "model_reading"}))
  /\ [][\A r \in Requests :
          /\ Leaves(r) => (pc'[r] = "done" \/ Rank(pc'[r]) = Rank(pc[r]) + 1)
          /\ lookups'[r] # lookups[r] =>
               /\ Handles(r) /\ lookups'[r] = 1
               /\ normalizeUrl(RawUrlOf(body[r])) # NULL
               /\ isAllowedUrl(normalizeUrl(RawUrlOf(body[r])))
          /\ fetches'[r] # fetches[r] =>
               Handles(r) /\ pc'[r] = "fetching" /\ lookups'[r] = 1 /\ fetches'[r] = 1
          /\ models'[r] # models[r] =>
               /\ pc[r] = "reading" /\ pc'[r] = "model_calling" /\ ~aborted[r]
               /\ fetches[r] = 1 /\ models'[r] = 1 /\ prompt'[r] # NoPrompt
          /\ (Leaves(r) /\ pc'[r] = "done" /\ resp'[r].status = 200
                 /\ ~resp'[r].json.cached) =>
               /\ pc[r] = "model_reading" /\ ValidReply(reply[r])
               /\ fetches[r] = 1 /\ models[r] = 1
          /\ pc[r] = "done" => pc'[r] = "done"]_vars
  /\ [][(cache' # cache /\ \A r \in Requests : ~Handles(r)) =>
          \E r \in Requests :
            /\ pc[r] = "model_reading" /\ ValidReply(reply[r]) /\ pc'[r] = "done"
            /\ fetches[r] = 1 /\ models[r] = 1
            /\ cache' = MapSet(cache, url[r],
                               [value |-> JSONParse(reply[r].v).value,
                                expires |-> now + TenMinutes])]_vars

\* a request that went through every stage once, and one that ended at the fetch
C13_Witness ==
  \E r, q \in Requests :
    /\ pc[r] = "done" /\ resp[r].status = 200 /\ ~resp[r].json.cached
    /\ lookups[r] = 1 /\ fetches[r] = 1 /\ models[r] = 1
    /\ pc[q] = "done" /\ resp[q] = [status |-> 500, json |-> [error |-> "network error"]]
    /\ fetches[q] = 1 /\ models[q] = 0
    /\ cache # EmptyMap

\* C14: every POST /analyze request eventually reaches a terminal state and sends
\* its response, even when a page host or the model service never responds.
C14_EveryRequestEnds ==
  \A r \in LiveRequests : (pc[r] = "received") ~> (pc[r] = "done")

\* the part of C14 that the fetch's timer secures: a request does not stay in the
\* handler or in its page fetch forever
FetchStageEnds ==
  \A r \in LiveRequests :
    (pc[r] \in {"received", "fetching", "reading"}) ~>
      (pc[r] \in {"model_calling", "model_reading", "done"})

\* C15: the normalized address is the sole cache key.  After a successful request
\* for an address, a request within the TTL for any raw input that normalizes to
\* the same address is a cache hit carrying the value written; and a hit for one
\* address is never answered from the entry of another.
C15_NormalizedAddressIsTheKey ==
  [][\A r \in Requests :
       (Handles(r) /\ IsStringField(body[r])) =>
         LET u == normalizeUrl(RawUrlOf(body[r]))
         IN  /\ (u # NULL /\ u \in DOMAIN lastSet /\ now - lastSet[u].at <= TenMinutes) =>
                  /\ pc'[r] = "done"
                  /\ resp'[r] = [status |-> 200,
                                 json |-> [cached |-> TRUE, data |-> lastSet[u].value]]
             /\ (pc'[r] = "done" /\ resp'[r].status = 200) =>
                  /\ u \in DOMAIN cache
                  /\ resp'[r].json = [cached |-> TRUE, data |-> cache[u].value]
             /\ (u # NULL /\ isAllowedUrl(u) /\ u \notin DOMAIN cache) =>
                  pc'[r] = "fetching" /\ url'[r] = u]_vars

\* C16: bounded staleness.  Every entry's expiry is the time of the set that wrote
\* it plus the TTL of 10 minutes; a response with cached=true carries a value that
\* was written no more than the TTL before the lookup that returned it; and a read
\* never extends an expiry.
C16_BoundedStaleness ==
  /\ [](\A k \in DOMAIN cache :
          /\ k \in DOMAIN lastSet
          /\ cache[k] = [value |-> lastSet[k].value, expires |-> lastSet[k].at + TenMinutes])
  /\ [][\A r \in Requests :
          (Handles(r) /\ pc'[r] = "done" /\ resp'[r].status = 200) =>
            /\ resp'[r].json.cached
            /\ \E k \in DOMAIN lastSet :
                 /\ k = normalizeUrl(RawUrlOf(body[r]))
                 /\ resp'[r].json.data = lastSet[k].value
                 /\ lastSet[k].at <= now /\ now - lastSet[k].at <= TenMinutes]_vars
  /\ [][(\E r \in Requests : Handles(r)) =>
          \A k \in DOMAIN cache' : k \in DOMAIN cache /\ cache'[k].expires = cache[k].expires]_vars

\* a hit at the very end of an entry's life
C16_Witness ==
  \E r \in Requests : \E k \in DOMAIN cache :
    /\ pc[r] = "done" /\ resp[r] = [status |-> 200, json |-> [cached |-> TRUE, data |-> cache[k].value]]
    /\ lookups[r] = 1 /\ fetches[r] = 0
    /\ now = cache[k].expires /\ now = lastSet[k].at + TenMinutes

\* request r's model call was made with a prompt built from address k and from
\* page content that r's own fetch of k returned
PromptBuiltFrom(r, k) ==
  /\ url[r] = k /\ fetches[r] = 1 /\ models[r] = 1
  /\ Len(prompt[r]) = 2
  /\ prompt[r][2].content.url = k
  /\ prompt[r][2].content.html \in {clipHtml(text) : text \in PageBodies}

\* C17: cache integrity.  Each entry under key k holds a value returned by a
\* successful model invocation of a request whose normalized address is k, made
\* with a prompt built from k and from the page content that request fetched from
\* k; nothing else writes the cache; and the cache never holds an entry for an
\* address that failed normalization or the allow-check.
C17_CacheIntegrity ==
  /\ [](\A k \in DOMAIN cache :
          /\ k # NULL /\ normalizeUrl(k) = k /\ isAllowedUrl(k)
          /\ k \in DOMAIN lastSet /\ cache[k].value = lastSet[k].value)
  /\ [][\A k \in DOMAIN cache' :
          (k \notin DOMAIN cache \/ cache'[k] # cache[k] \/ lastSet' # lastSet) =>
            \E r \in Requests :
              /\ pc[r] = "model_reading" /\ pc'[r] = "done"
              /\ ValidReply(reply[r])
              /\ PromptBuiltFrom(r, k) \/ (url[r] # k /\ k \in DOMAIN cache
                                            /\ cache'[k] = cache[k])
              /\ url[r] = k => cache'[k].value = JSONParse(reply[r].v).value]_vars

\* two addresses cached, each by its own request
C17_Witness ==
  /\ \E k, j \in DOMAIN cache : k # j /\ cache[k].value # cache[j].value
  /\ \A r \in Requests :
       pc[r] = "done" /\ resp[r].status = 200 /\ ~resp[r].json.cached
         /\ \E k \in DOMAIN cache : cache[k].value = resp[r].json.data

\* every request has answered 200 with a fresh result, all of them for address k
AllWroteUnder(k) ==
  /\ DOMAIN lastSet = {k}
  /\ \A r \in Requests : pc[r] = "done" /\ resp[r].status = 200 /\ ~resp[r].json.cached

\* C18: last writer wins.  When several requests for the same normalized address
\* miss the cache and all succeed, then after all of them have completed the cache
\* holds exactly one entry for that address, with the value of the request that
\* wrote last and the expiry of that write's time plus the TTL, whatever the order
\* in which the requests arrived.
C18_LastWriterWins ==
  /\ [][\A r \in Requests :
          (pc[r] = "model_reading" /\ pc'[r] = "done" /\ resp'[r].status = 200) =>
            /\ DOMAIN cache' = DOMAIN cache \cup {url[r]}
            /\ cache'[url[r]] = [value |-> resp'[r].json.data, expires |-> now + TenMinutes]
            /\ \A q \in Requests \ {r} :
                 (InFlight(q) /\ url[q] = url[r]) => pc'[q] = pc[q]]_vars
  /\ [][\A k \in DOMAIN lastSet' :
          AllWroteUnder(k)' =>
            \E r \in Requests :
              /\ pc[r] = "model_reading"
              /\ DOMAIN cache' = {k}
              /\ cache'[k] = [value |-> resp'[r].json.data, expires |-> now + TenMinutes]]_vars

\* two concurrent misses for one address, the request that arrived first wrote last
C18_Witness ==
  \E k \in DOMAIN cache :
    /\ AllWroteUnder(k) /\ DOMAIN cache = {k}
    /\ lookups = [r \in Requests |-> 1]
    /\ cache[k].value = resp[1].json.data
    /\ \A q \in Requests \ {1} : resp[q].json.data # resp[1].json.data
    /\ now = 0

\* the two caches agree on every key but k
SameButFor(k, before, after) ==
  /\ DOMAIN after \ {k} = DOMAIN before \ {k}
  /\ \A j \in DOMAIN before \ {k} : after[j] = before[j]

\* C19: the frame of the cache operations.  A get of a present, unexpired entry
\* leaves the whole cache unchanged; a get of an expired entry removes only that
\* entry; a set changes only the entry of its key.  No operation on a key adds,
\* removes or alters the entry of another key, and nothing but a get of that key
\* removes an entry, so an expired entry that is not read again stays.
C19_CacheFrame ==
  [][/\ \A r \in Requests :
          (Handles(r) /\ IsStringField(body[r])) =>
            LET k == normalizeUrl(RawUrlOf(body[r]))
            IN  /\ SameButFor(k, cache, cache')
                /\ (k \in DOMAIN cache /\ now <= cache[k].expires) => cache' = cache
                /\ (k \in DOMAIN cache /\ now > cache[k].expires) =>
                     (k \notin DOMAIN cache' /\ lookups'[r] = 1)
                /\ k \notin DOMAIN cache => cache' = cache
     /\ \A r \in Requests :
          (pc[r] = "model_reading" /\ Leaves(r)) =>
            /\ SameButFor(url[r], cache, cache')
            /\ resp'[r].status = 200 => url[r] \in DOMAIN cache'
            /\ resp'[r].status # 200 => cache' = cache
     /\ (\A r \in Requests : ~Handles(r) /\ ~(pc[r] = "model_reading" /\ Leaves(r))) =>
          cache' = cache]_vars

\* an entry that has expired is still there after another key was looked up and
\* set
C19_Witness ==
  \E k, j \in DOMAIN cache :
    /\ k # j
    /\ now > cache[k].expires
    /\ lastSet[j].at > cache[k].expires
    /\ \A r \in Requests : pc[r] = "done" /\ lookups[r] = 1
====
